---- MODULE Spec2Model ----
(***************************************************************************)
(* Model of the ELD Library storage/authorization server                   *)
(* (src/scripts/server.py): the project list, project login, the token     *)
(* registry, the manifest scan, path resolution, download and upload, and  *)
(* the store set-up of src/scripts/setup_dirs.py; and of the thumbnail     *)
(* cache of the browser client (src/Houdini_shelf_tools/ELD_Library_UI.py).*)
(*                                                                         *)
(* Strings are sequences of one-character strings, so that startswith,     *)
(* replace, lstrip, "in" and pathlib's parsing are computed character by   *)
(* character as the code computes them.  A path object is a record         *)
(* [drv, root, parts] as in pathlib (drive, root, list of segments).       *)
(* The code runs unchanged on POSIX and on Windows; pathlib behaves        *)
(* differently on the two, so the platform is part of the state (windows). *)
(* The filesystem holds no symbolic links.                                 *)
(***************************************************************************)
EXTENDS Integers, Sequences, FiniteSets, TLC

VARIABLES
    windows,    \* TRUE when the server runs on Windows (pathlib.WindowsPath)
    dirs,       \* the directories of the filesystem (set of segment lists)
    files,      \* the regular files: segment list -> content
    TOKENS,     \* server.py TOKENS: insertion-ordered <<project, token>> pairs
    up,         \* the upload requests: uploader -> handler position and locals
    issued,     \* history: the <<project, token>> pairs that logins have returned
    scan,       \* a request inside _project_from_token: its place in the loop
    current_project,  \* browser client: <<project>>, or <<>> for None
    current_assets,   \* browser client: the asset records of the last manifest
    api_tokens,       \* browser client, ApiClient.tokens: project -> token
    thumbcache,       \* the files of the client's disk: path -> content
    origin            \* history: path -> <<project, remote path>> it was fetched from

\* the state of the browser client
client == <<current_project, current_assets, api_tokens, thumbcache, origin>>

vars == <<windows, dirs, files, TOKENS, up, issued, scan,
          current_project, current_assets, api_tokens, thumbcache, origin>>

(***************************************************************************)
(* Bounds                                                                  *)
(***************************************************************************)
MaxUploads == 2

\* the longest credential record of the verification specification
MaxRecLen == 4

\* the most bytes a client download receives before its connection breaks
MaxCut == 2

Uploaders == 1..MaxUploads

(***************************************************************************)
(* str / bytes methods                                                     *)
(***************************************************************************)
SLASH == "/"
BSLASH == "\\"
NUL == "0"

StartsWith(s, p) == Len(p) <= Len(s) /\ SubSeq(s, 1, Len(p)) = p

Contains(s, sub) ==
    \E i \in 1..(Len(s) - Len(sub) + 1) : SubSeq(s, i, i + Len(sub) - 1) = sub

Replace(s, old, new) == [i \in 1..Len(s) |-> IF s[i] = old THEN new ELSE s[i]]

RECURSIVE LStrip(_, _)
LStrip(s, chars) ==
    IF s # <<>> /\ s[1] \in chars THEN LStrip(Tail(s), chars) ELSE s

RECURSIVE RStrip(_, _)
RStrip(s, chars) ==
    IF s # <<>> /\ s[Len(s)] \in chars
    THEN RStrip(SubSeq(s, 1, Len(s) - 1), chars)
    ELSE s

Whitespace == {" ", "\n"}

Strip(s) == RStrip(LStrip(s, Whitespace), Whitespace)

RECURSIVE SplitFrom(_, _, _, _)
SplitFrom(s, seps, i, cur) ==
    IF i > Len(s) THEN <<cur>>
    ELSE IF s[i] \in seps THEN <<cur>> \o SplitFrom(s, seps, i + 1, <<>>)
    ELSE SplitFrom(s, seps, i + 1, Append(cur, s[i]))

Split(s, seps) == SplitFrom(s, seps, 1, <<>>)

RECURSIVE JoinWith(_, _)
JoinWith(segs, sep) ==
    IF segs = <<>> THEN <<>>
    ELSE IF Len(segs) = 1 THEN segs[1]
    ELSE segs[1] \o <<sep>> \o JoinWith(Tail(segs), sep)

\* str.split(" ", 1)[1]: what follows the first blank
RECURSIVE AfterFirst(_, _)
AfterFirst(s, c) ==
    IF s = <<>> THEN <<>>
    ELSE IF s[1] = c THEN Tail(s)
    ELSE AfterFirst(Tail(s), c)

(***************************************************************************)
(* pathlib                                                                 *)
(***************************************************************************)
DOT == <<".">>
DOTDOT == <<".", ".">>
Letters == {"A", "B", "C", "D"}

Seps(win) == IF win THEN {SLASH, BSLASH} ELSE {SLASH}
Sep(win) == IF win THEN BSLASH ELSE SLASH

IsRealSegment(x) == x # <<>> /\ x # DOT

\* pathlib.Path(s): drive, root and segments; empty and "." segments vanish
ParsePath(win, s) ==
    LET hasDrv == win /\ Len(s) >= 2 /\ s[1] \in Letters /\ s[2] = ":"
        drv    == IF hasDrv THEN SubSeq(s, 1, 2) ELSE <<>>
        rest   == IF hasDrv THEN SubSeq(s, 3, Len(s)) ELSE s
        rooted == rest # <<>> /\ rest[1] \in Seps(win)
    IN [drv   |-> drv,
        root  |-> IF rooted THEN <<Sep(win)>> ELSE <<>>,
        parts |-> SelectSeq(Split(rest, Seps(win)), IsRealSegment)]

\* base / p, for a path object base and a string p
JoinPath(win, base, p) ==
    LET q == ParsePath(win, p) IN
    IF q.drv # <<>> /\ q.drv # base.drv THEN q
    ELSE IF q.root # <<>> THEN [drv |-> base.drv, root |-> q.root, parts |-> q.parts]
    ELSE [base EXCEPT !.parts = base.parts \o q.parts]

\* str(p)
PathStr(win, p) ==
    IF p.drv = <<>> /\ p.root = <<>> /\ p.parts = <<>> THEN DOT
    ELSE p.drv \o p.root \o JoinWith(p.parts, Sep(win))

\* p.as_posix()
AsPosix(win, p) == Replace(PathStr(win, p), BSLASH, IF win THEN SLASH ELSE BSLASH)

RECURSIVE Collapse(_, _)
Collapse(parts, acc) ==
    IF parts = <<>> THEN acc
    ELSE IF parts[1] = DOTDOT
         THEN Collapse(Tail(parts),
                       IF acc = <<>> THEN acc ELSE SubSeq(acc, 1, Len(acc) - 1))
         ELSE Collapse(Tail(parts), Append(acc, parts[1]))

\* p.resolve() of an absolute path on a filesystem without symbolic links
Resolve(p) == [p EXCEPT !.parts = Collapse(p.parts, <<>>)]

Parent(parts) == IF parts = <<>> THEN parts ELSE SubSeq(parts, 1, Len(parts) - 1)

(***************************************************************************)
(* The deployment: names, credentials and request inputs                   *)
(***************************************************************************)
A == <<"A">>                          \* a project with a legacy credential
AB == <<"A", "B">>                    \* a project with a hashed credential
D == <<"D">>                          \* a project directory without credential
N == <<"N">>                          \* no such project directory
nR == <<"r">>                         \* the directory that is PROJECTS_DIR
nE == <<"e">>                         \* a file outside the store root
nX == <<"x">>
PASSWD == <<".", "p", "a", "s", "s", "w", "d">>

PwA == <<"p", "a">>
PwAB == <<"p", "b">>
PwWrong == <<"w">>

ProjectNames == {A, AB, D, N}
Passwords == {PwA, PwAB, PwWrong}

\* server.py line 9, PROJECTS_DIR = BASE_DIR / "projects" (resolved, absolute)
PROJECTS_DIR(win) ==
    [drv |-> IF win THEN <<"C", ":">> ELSE <<>>, root |-> <<Sep(win)>>, parts |-> <<nR>>]

ProjectRoot(win, proj) == JoinPath(win, PROJECTS_DIR(win), proj)

\* the file or directory the operating system finds for a path object
FsKey(p) == Collapse(p.parts, <<>>)

(***************************************************************************)
(* bcrypt, abstractly: a hash record is the marker, a salt character and a *)
(* digest of the password; checkpw raises on a record it cannot parse.     *)
(***************************************************************************)
BCRYPT_MARK == <<"$", "2">>
SALT == "#"

RECURSIVE Reverse(_)
Reverse(s) == IF s = <<>> THEN <<>> ELSE Append(Reverse(Tail(s)), s[1])

BcryptHashpw(pw) == BCRYPT_MARK \o <<SALT>> \o Reverse(pw)

BcryptWellFormed(raw) == Len(raw) >= 3 /\ SubSeq(raw, 1, 3) = BCRYPT_MARK \o <<SALT>>

\* "ok", "no" or "raise"
BcryptCheckpw(pw, raw) ==
    IF ~BcryptWellFormed(raw) THEN "raise"
    ELSE IF raw = BcryptHashpw(pw) THEN "ok" ELSE "no"

(***************************************************************************)
(* Password utilities, server.py lines 24-48                               *)
(***************************************************************************)
PasswdPath(win, project) == JoinPath(win, ProjectRoot(win, project), PASSWD)

Exists(ds, fs, key) == key \in ds \/ key \in DOMAIN fs

HasPasswd(win, ds, fs, project) == Exists(ds, fs, FsKey(PasswdPath(win, project)))

\* read_bytes raises when the record is a directory
PasswdUnreadable(win, ds, project) == FsKey(PasswdPath(win, project)) \in ds

\* a comparison with the record as it is stored, whitespace included
VerifyPasswordExact(win, ds, fs, project, plain) ==
    LET p == FsKey(PasswdPath(win, project)) IN
    IF ~Exists(ds, fs, p) THEN FALSE
    ELSE LET raw == fs[p] IN
         IF StartsWith(raw, BCRYPT_MARK)
         THEN BcryptCheckpw(plain, raw) = "ok"
         ELSE plain = raw

VerifyPassword(win, ds, fs, project, plain) ==
    LET p == FsKey(PasswdPath(win, project)) IN
    IF ~Exists(ds, fs, p) THEN FALSE
    ELSE LET raw == Strip(fs[p]) IN
         IF StartsWith(raw, BCRYPT_MARK)
         THEN BcryptCheckpw(plain, raw) = "ok"
         ELSE plain = raw

(***************************************************************************)
(* The token registry, server.py lines 10, 50-59, 89-90                    *)
(***************************************************************************)
TokenPrefix == <<"t", "o", "k", "e", "n", "-">>
BearerPrefix == <<"B", "e", "a", "r", "e", "r", " ">>

\* a token that does not depend on the project
MakeTokenShared(project) == TokenPrefix

\* line 89: token = f"token-{req.project}"
MakeToken(project) == TokenPrefix \o project

\* line 90: TOKENS[project] = token (a dict keeps the place of an existing key)
SetToken(T, project, token) ==
    IF \E i \in 1..Len(T) : T[i][1] = project
    THEN [i \in 1..Len(T) |-> IF T[i][1] = project THEN <<project, token>> ELSE T[i]]
    ELSE Append(T, <<project, token>>)

Response(status, detail, body) == [status |-> status, detail |-> detail, body |-> body]

NoBody == <<>>

\* a check that takes a header without the scheme prefix as the token itself
RequireBearerLax(authorization) ==
    IF authorization = <<>>
    THEN [ok |-> FALSE, r |-> Response(401, "Missing token", NoBody)]
    ELSE IF ~StartsWith(authorization, BearerPrefix)
    THEN [ok |-> TRUE, token |-> authorization]
    ELSE [ok |-> TRUE, token |-> AfterFirst(authorization, " ")]

\* _require_bearer: [ok, token] or the 401 response
RequireBearer(authorization) ==
    IF authorization = <<>> \/ ~StartsWith(authorization, BearerPrefix)
    THEN [ok |-> FALSE, r |-> Response(401, "Missing token", NoBody)]
    ELSE [ok |-> TRUE, token |-> AfterFirst(authorization, " ")]

\* _project_from_token: the first key, in insertion order, whose value is the token
ProjectFromToken(T, token) ==
    LET hits == {i \in 1..Len(T) : T[i][2] = token} IN
    IF hits = {} THEN [ok |-> FALSE, r |-> Response(401, "Invalid token", NoBody)]
    ELSE [ok |-> TRUE, proj |-> T[CHOOSE i \in hits : \A j \in hits : i <= j][1]]

\* lines 140-141 (and 95-96, 124-125): the project of an Authorization header
Authenticate(T, authorization) ==
    LET b == RequireBearer(authorization) IN
    IF ~b.ok THEN b ELSE ProjectFromToken(T, b.token)

(***************************************************************************)
(* POST /auth/login, server.py lines 76-91                                 *)
(***************************************************************************)
\* a login that lets a project without credential record in (the variant the
\* comment at line 83 mentions)
LoginResultOpen(win, ds, fs, T, project, password) ==
    IF ~Exists(ds, fs, FsKey(ProjectRoot(win, project)))
    THEN [r |-> Response(404, "Project not found", NoBody), T |-> T]
    ELSE IF HasPasswd(win, ds, fs, project)
            /\ (PasswdUnreadable(win, ds, project)
                \/ ~VerifyPassword(win, ds, fs, project, password))
    THEN [r |-> Response(401, "Invalid password", NoBody), T |-> T]
    ELSE [r |-> Response(200, "token", MakeToken(project)),
          T |-> SetToken(T, project, MakeToken(project))]

\* the response and the registry after login(project, password)
LoginResult(win, ds, fs, T, project, password) ==
    LET proj_dir == FsKey(ProjectRoot(win, project)) IN
    IF ~Exists(ds, fs, proj_dir)
    THEN [r |-> Response(404, "Project not found", NoBody), T |-> T]
    ELSE IF ~HasPasswd(win, ds, fs, project)
    THEN [r |-> Response(401, "Password not set for project", NoBody), T |-> T]
    ELSE IF PasswdUnreadable(win, ds, project)
    THEN [r |-> Response(500, "Internal Server Error", NoBody), T |-> T]
    ELSE IF ~VerifyPassword(win, ds, fs, project, password)
    THEN [r |-> Response(401, "Invalid password", NoBody), T |-> T]
    ELSE [r |-> Response(200, "token", MakeToken(project)),
          T |-> SetToken(T, project, MakeToken(project))]

(***************************************************************************)
(* GET /download, server.py lines 122-134                                  *)
(***************************************************************************)
\* lines 127-130: the resolved target, or the 400 response
DownloadTarget(win, proj, path) ==
    LET fpath == Resolve(JoinPath(win, ProjectRoot(win, proj), path))
        root  == Resolve(ProjectRoot(win, proj))
    IN IF ~StartsWith(PathStr(win, fpath), PathStr(win, root))
       THEN [ok |-> FALSE, r |-> Response(400, "Invalid path", NoBody)]
       ELSE [ok |-> TRUE, fpath |-> fpath]

\* the whole handler; FileResponse refuses what is not a regular file
DownloadResult(win, ds, fs, T, authorization, path) ==
    LET a == Authenticate(T, authorization) IN
    IF ~a.ok THEN a.r
    ELSE LET t == DownloadTarget(win, a.proj, path) IN
         IF ~t.ok THEN t.r
         ELSE IF ~Exists(ds, fs, FsKey(t.fpath))
         THEN Response(404, "File not found", NoBody)
         ELSE IF FsKey(t.fpath) \in ds
         THEN Response(500, "Internal Server Error", NoBody)
         ELSE Response(200, "file", fs[FsKey(t.fpath)])

(***************************************************************************)
(* POST /upload, server.py lines 136-158                                   *)
(***************************************************************************)
\* line 144
UploadRel(win, path) ==
    LStrip(AsPosix(win, ParsePath(win, Replace(path, BSLASH, SLASH))), {SLASH})

\* lines 140-151: authentication and path validation
UploadPlan(win, T, authorization, path) ==
    LET a == Authenticate(T, authorization) IN
    IF ~a.ok THEN a
    ELSE LET rel  == UploadRel(win, path)
             dest == Resolve(JoinPath(win, ProjectRoot(win, a.proj), rel))
             root == Resolve(ProjectRoot(win, a.proj))
         IN IF Contains(rel, DOTDOT) \/ StartsWith(rel, <<SLASH>>)
            THEN [ok |-> FALSE, r |-> Response(400, "Invalid path", NoBody)]
            ELSE IF ~StartsWith(PathStr(win, dest), PathStr(win, root))
            THEN [ok |-> FALSE, r |-> Response(400, "Invalid path", NoBody)]
            ELSE [ok |-> TRUE, proj |-> a.proj, dest |-> dest, root |-> root]

Prefixes(key) == {SubSeq(key, 1, n) : n \in 0..Len(key)}

\* line 153, dest.parent.mkdir(parents=True, exist_ok=True): fails on a regular file
MkdirOk(fs, key) == Prefixes(key) \cap DOMAIN fs = {}

\* line 155, open(dest, "wb"): fails on a directory, else creates or truncates
OpenOk(ds, key) == key \notin ds

PutFile(fs, key, content) ==
    [k \in DOMAIN fs \cup {key} |-> IF k = key THEN content ELSE fs[k]]

\* f.write(chunk) at the writer's own file position; a gap reads as NUL bytes
WriteAt(content, pos, chunk) ==
    LET padded == IF Len(content) < pos
                  THEN content \o [i \in 1..(pos - Len(content)) |-> NUL]
                  ELSE content
    IN SubSeq(padded, 1, pos) \o chunk \o SubSeq(padded, pos + Len(chunk) + 1, Len(padded))

\* line 158: dest.relative_to(root) raises unless root's segments lead dest's
RelativeOk(dest, root) ==
    dest.drv = root.drv /\ dest.root = root.root /\ StartsWith(dest.parts, root.parts)

Saved(win, dest, root) ==
    LET rel == SubSeq(dest.parts, Len(root.parts) + 1, Len(dest.parts)) IN
    IF rel = <<>> THEN DOT ELSE Replace(JoinWith(rel, Sep(win)), BSLASH, SLASH)

(***************************************************************************)
(* GET /manifest, server.py lines 93-120                                   *)
(***************************************************************************)
UPPER == <<"A", "B", "C", "D", "E", "F", "G", "H", "I", "J", "K", "L", "M", "N", "O", "P", "Q", "R", "S", "T", "U", "V", "W", "X", "Y", "Z">>
LOWER == <<"a", "b", "c", "d", "e", "f", "g", "h", "i", "j", "k", "l", "m", "n", "o", "p", "q", "r", "s", "t", "u", "v", "w", "x", "y", "z">>

LowerChar(c) ==
    IF \E i \in 1..Len(UPPER) : UPPER[i] = c
    THEN LOWER[CHOOSE i \in 1..Len(UPPER) : UPPER[i] = c]
    ELSE c

\* str.lower()
Lower(s) == [i \in 1..Len(s) |-> LowerChar(s[i])]

\* the place of the last "." of a name, 0 when it has none
RFindDot(name) ==
    LET I == {i \in 1..Len(name) : name[i] = "."} IN
    IF I = {} THEN 0 ELSE CHOOSE i \in I : \A j \in I : j <= i

\* pathlib's suffix: from the last ".", unless that is the first or the last character
Suffix(name) ==
    LET i == RFindDot(name) IN
    IF 1 < i /\ i < Len(name) THEN SubSeq(name, i, Len(name)) ELSE <<>>

\* pathlib's stem: the name without its suffix
Stem(name) ==
    LET i == RFindDot(name) IN
    IF 1 < i /\ i < Len(name) THEN SubSeq(name, 1, i - 1) ELSE name

\* line 106: pathlib.Path(fname).suffix.lower().lstrip(".")
FileExt(fname) == LStrip(Lower(Suffix(fname)), {"."})

\* line 103
exts == {<<"b", "g", "e", "o">>, <<"a", "b", "c">>, <<"v", "d", "b">>, <<"c", "p", "i", "o">>, <<"j", "p", "g">>, <<"p", "n", "g">>}

\* line 116
ThumbExts == {<<"j", "p", "g">>, <<"p", "n", "g">>}

\* a manifest that gives every record a thumbnail
AssetRecordAllThumbs(win, fs, rootKey, key) ==
    LET fname   == key[Len(key)]
        relpath == AsPosix(win, [drv |-> <<>>, root |-> <<>>,
                                 parts |-> SubSeq(key, Len(rootKey) + 1, Len(key))])
    IN [id |-> Stem(fname), type |-> FileExt(fname), version |-> 1, path |-> relpath,
        thumb |-> <<relpath>>, bytes_total |-> Len(fs[key])]

\* lines 109-118: the record of the file key; thumb is <<relpath>>, or <<>> for None
AssetRecord(win, fs, rootKey, key) ==
    LET fname   == key[Len(key)]
        ext     == FileExt(fname)
        relpath == AsPosix(win, [drv |-> <<>>, root |-> <<>>,
                                 parts |-> SubSeq(key, Len(rootKey) + 1, Len(key))])
    IN [id |-> Stem(fname), type |-> ext, version |-> 1, path |-> relpath,
        thumb |-> IF ext \in ThumbExts THEN <<relpath>> ELSE <<>>,
        bytes_total |-> Len(fs[key])]

\* a scan that keeps every file, whatever its extension
RECURSIVE WalkAssetsAll(_, _, _, _)
WalkAssetsAll(win, fs, rootKey, keys) ==
    IF keys = {} THEN <<>>
    ELSE LET k == CHOOSE k \in keys : TRUE IN
         <<AssetRecord(win, fs, rootKey, k)>> \o WalkAssetsAll(win, fs, rootKey, keys \ {k})

\* lines 104-118: os.walk visits every file below the directory once, in an
\* order the filesystem decides; files with another extension are skipped
RECURSIVE WalkAssets(_, _, _, _)
WalkAssets(win, fs, rootKey, keys) ==
    IF keys = {} THEN <<>>
    ELSE LET k == CHOOSE k \in keys : TRUE IN
         (IF FileExt(k[Len(k)]) \in exts THEN <<AssetRecord(win, fs, rootKey, k)>> ELSE <<>>)
            \o WalkAssets(win, fs, rootKey, keys \ {k})

\* the whole handler
ManifestResult(win, ds, fs, T, authorization) ==
    LET a == Authenticate(T, authorization) IN
    IF ~a.ok THEN a.r
    ELSE LET proj_dir == FsKey(ProjectRoot(win, a.proj)) IN
         IF ~Exists(ds, fs, proj_dir)
         THEN Response(404, "Project not found", NoBody)
         ELSE Response(200, "assets",
                       WalkAssets(win, fs, proj_dir,
                                  {k \in DOMAIN fs : StartsWith(k, proj_dir) /\ k # proj_dir}))

(***************************************************************************)
(* GET /projects, server.py lines 64-74                                    *)
(***************************************************************************)
\* line 72
ReservedNames == {<<"S", "c", "r", "i", "p", "t">>, <<"S", "c", "r", "i", "p", "t", "s">>}

\* a listing that does not look at what kind of entry it lists
ListProjectsAnyEntry(ds, fs) ==
    IF ~Exists(ds, fs, <<nR>>) THEN {}
    ELSE {k[2] : k \in {e \in ds \cup DOMAIN fs :
                           /\ Len(e) = 2 /\ e[1] = nR
                           /\ ~StartsWith(e[2], DOT)
                           /\ e[2] \notin ReservedNames}}

\* the names the handler returns (iterdir gives every entry once, in an order
\* the filesystem decides)
ListProjects(ds, fs) ==
    IF ~Exists(ds, fs, <<nR>>) THEN {}
    ELSE {k[2] : k \in {e \in ds :
                           /\ Len(e) = 2 /\ e[1] = nR
                           /\ ~StartsWith(e[2], DOT)
                           /\ e[2] \notin ReservedNames}}

(***************************************************************************)
(* Request inputs                                                          *)
(***************************************************************************)
Bearer(token) == BearerPrefix \o token

HdrA == Bearer(MakeToken(A))
HdrAB == Bearer(MakeToken(AB))

Headers == {<<>>, HdrA, HdrAB, MakeToken(A)}

pX == <<"x">>                                              \* x
pSubX == <<"d", "/", "x">>                                 \* d/x
pSubXb == <<"d", "\\", "x">>                               \* d\x
pAbsX == <<"/", "x">>                                      \* /x
pAbsE == <<"/", "e">>                                      \* /e
pUpAB == <<".", ".", "/", "A", "B", "/", "x">>             \* ../AB/x
pUpABb == <<".", ".", "\\", "A", "B", "\\", "x">>          \* ..\AB\x
pUpE == <<".", ".", "/", ".", ".", "/", "e">>              \* ../../e
pInside == <<"d", "/", ".", ".", "/", "x">>                \* d/../x
pInsideb == <<"d", "\\", ".", ".", "\\", "x">>             \* d\..\x
pDrive == <<"C", ":", "/", "r", "/", "A", "B", "/", "x">>  \* C:/r/AB/x
pAbsXb == <<"\\", "x">>                                    \* \x

DownloadPaths == {pX, pSubX, pSubXb, pAbsX, pAbsE, pUpAB, pUpABb, pUpE, pInside, pDrive}
UploadPaths == {pX, pSubXb, pUpAB, pDrive}

\* the inputs of the credential-centred specification SpecAuth
pPasswd == PASSWD                                          \* .passwd
AuthPasswords == {PwA, PwAB, PwWrong, <<>>}
AuthPaths == {pX, pPasswd}
AuthUploadPaths == {pPasswd}
AuthBlobs == {PwWrong}

Old == <<"o", "l">>
Blobs == {<<"a", "b">>, <<"c">>}

\* shutil.copyfileobj copies in chunks of COPY_BUFSIZE bytes; one unit here
ChunkSize == 1

\* the inputs and the deployment of the catalogue specification SpecCatalog
nBgeo == <<"a", ".", "b", "g", "e", "o">>
nVdb == <<"b", ".", "v", "d", "b">>
nTxt == <<"r", "e", "a", "d", "m", "e", ".", "t", "x", "t">>
nThumbs == <<"t", "h", "u", "m", "b", "s">>
nShot == <<"s", "h", "o", "t", ".", "j", "p", "g">>
nPng == <<"c", ".", "P", "N", "G">>
nDots == <<"m", ".", "x", ".", "A", "b", "c">>
nHidden == <<".", "h">>
nScript == <<"S", "c", "r", "i", "p", "t">>
nScripts == <<"S", "c", "r", "i", "p", "t", "s">>
nStray == <<"f", ".", "a", "b", "c">>
nDemo == <<"D", "e", "m", "o", "P", "r", "o", "j", "e", "c", "t">>
nCacheAbc == <<"c", "a", "c", "h", "e", ".", "a", "b", "c">>
nSmokeVdb == <<"s", "m", "o", "k", "e", ".", "v", "d", "b">>
nGeoBgeo == <<"g", "e", "o", ".", "b", "g", "e", "o">>

pShot == nThumbs \o <<"/">> \o nShot                       \* thumbs/shot.jpg
CatalogPaths == {nBgeo, pShot, nPng}
CatalogUploadPaths == {nPng}
CatalogBlobs == {<<"c">>}

\* the inputs of the verification specification SpecVerify: every credential
\* record and every password over a small alphabet
SeqsUpTo(S, n) == UNION {[1..k -> S] : k \in 0..n}
VerifyAlphabet == {"$", "2", SALT, "p", "\n"}
VerifyRecords == SeqsUpTo(VerifyAlphabet, MaxRecLen)
VerifyPasswords == SeqsUpTo(VerifyAlphabet, MaxRecLen - 3)

(***************************************************************************)
(* The state machine                                                       *)
(***************************************************************************)
IdleUp == [pc |-> "idle"]
IdleScan == [pc |-> "idle"]

\* the browser client after EldBrowser.__init__, with an empty thumbnail cache
InitClient ==
    /\ current_project = <<>>
    /\ current_assets = <<>>
    /\ api_tokens = <<>>
    /\ thumbcache = <<>>
    /\ origin = <<>>

InitDirs == {<<>>, <<nR>>, <<nR, A>>, <<nR, AB>>, <<nR, D>>}

InitFiles ==
    [k \in {<<nR, A, PASSWD>>, <<nR, AB, PASSWD>>, <<nR, A, nX>>, <<nR, AB, nX>>, <<nE>>} |->
        IF k = <<nR, A, PASSWD>> THEN PwA \o <<"\n">>
        ELSE IF k = <<nR, AB, PASSWD>> THEN BcryptHashpw(PwAB)
        ELSE IF k = <<nR, A, nX>> THEN Old
        ELSE IF k = <<nR, AB, nX>> THEN <<"q">>
        ELSE <<"e">>]

Init ==
    /\ windows \in BOOLEAN
    /\ dirs = InitDirs
    /\ files = InitFiles
    /\ TOKENS = <<>>
    /\ up = [i \in Uploaders |-> IdleUp]
    /\ issued = {}
    /\ scan = IdleScan
    /\ InitClient

\* POST /auth/login: the registry after the handler; it answers LoginResult(..).r
Login(project, password) ==
    LET res == LoginResult(windows, dirs, files, TOKENS, project, password) IN
    /\ TOKENS' = res.T
    /\ issued' = IF res.r.status = 200 THEN issued \cup {<<project, res.r.body>>}
                 ELSE issued
    /\ UNCHANGED <<windows, dirs, files, up, scan, client>>

\* GET /download: the handler only reads; it answers DownloadResult(..)
Download(authorization, path) ==
    /\ DownloadResult(windows, dirs, files, TOKENS, authorization, path).status
          \in {200, 400, 401, 404, 500}
    /\ UNCHANGED vars

\* the response of an upload request that does not get to write, or NoBody
UploadRefusal(win, ds, fs, T, authorization, path) ==
    LET plan == UploadPlan(win, T, authorization, path) IN
    IF ~plan.ok THEN plan.r
    ELSE IF ~MkdirOk(fs, Parent(FsKey(plan.dest)))
            \/ ~OpenOk(ds \cup Prefixes(Parent(FsKey(plan.dest))), FsKey(plan.dest))
    THEN Response(500, "Internal Server Error", NoBody)
    ELSE Response(0, "", NoBody)

\* POST /upload, lines 140-155: authenticate, validate, mkdir, open for writing
UploadBegin(i, authorization, path, data) ==
    LET plan == UploadPlan(windows, TOKENS, authorization, path) IN
    /\ up[i].pc = "idle"
    /\ \A j \in Uploaders : j < i => up[j].pc # "idle"
    /\ IF ~plan.ok
       THEN UNCHANGED <<dirs, files, up>>
       ELSE LET key == FsKey(plan.dest) IN
            IF ~MkdirOk(files, Parent(key))
            THEN UNCHANGED <<dirs, files, up>>
            ELSE IF ~OpenOk(dirs \cup Prefixes(Parent(key)), key)
            THEN /\ dirs' = dirs \cup Prefixes(Parent(key))
                 /\ UNCHANGED <<files, up>>
            ELSE /\ dirs' = dirs \cup Prefixes(Parent(key))
                 /\ files' = PutFile(files, key, <<>>)
                 /\ up' = [up EXCEPT ![i] =
                              [pc |-> "copy", proj |-> plan.proj, hdr |-> authorization,
                               path |-> path, dest |-> plan.dest, root |-> plan.root,
                               data |-> data, pos |-> 0,
                               pre |-> IF key \in DOMAIN files
                                       THEN <<files[key]>> ELSE <<>>]]
    /\ UNCHANGED <<windows, TOKENS, issued, scan, client>>

\* line 156: copyfileobj writes the next chunk
UploadWrite(i) ==
    /\ up[i].pc = "copy"
    /\ up[i].pos < Len(up[i].data)
    /\ LET key   == FsKey(up[i].dest)
           n     == IF up[i].pos + ChunkSize <= Len(up[i].data)
                    THEN ChunkSize ELSE Len(up[i].data) - up[i].pos
           chunk == SubSeq(up[i].data, up[i].pos + 1, up[i].pos + n)
       IN /\ files' = PutFile(files, key, WriteAt(files[key], up[i].pos, chunk))
          /\ up' = [up EXCEPT ![i].pos = up[i].pos + n]
    /\ UNCHANGED <<windows, dirs, TOKENS, issued, scan, client>>

\* the response of line 158
UploadReturn(win, dest, root) ==
    IF RelativeOk(dest, root)
    THEN Response(200, "saved", Saved(win, dest, root))
    ELSE Response(500, "Internal Server Error", NoBody)

\* lines 156-158: end of the stream, the file is closed and the handler returns
UploadFinish(i) ==
    /\ up[i].pc = "copy"
    /\ up[i].pos = Len(up[i].data)
    /\ up' = [up EXCEPT ![i] =
                 [pc |-> "done", hdr |-> up[i].hdr, path |-> up[i].path,
                  dest |-> up[i].dest, root |-> up[i].root, data |-> up[i].data,
                  status |-> UploadReturn(windows, up[i].dest, up[i].root).status]]
    /\ UNCHANGED <<windows, dirs, files, TOKENS, issued, scan, client>>

\* line 156: reading the stream or writing the file raises (an I/O failure)
UploadFail(i) ==
    /\ up[i].pc = "copy"
    /\ up' = [up EXCEPT ![i] = [pc |-> "failed", dest |-> up[i].dest, root |-> up[i].root,
                              pre |-> up[i].pre]]
    /\ UNCHANGED <<windows, dirs, files, TOKENS, issued, scan, client>>

\* GET /manifest: the handler only reads; it answers ManifestResult(..)
Manifest(authorization) ==
    /\ ManifestResult(windows, dirs, files, TOKENS, authorization).status \in {200, 401, 404}
    /\ UNCHANGED vars

\* GET /projects: the handler only reads; it answers ListProjects(..)
Projects ==
    /\ ListProjects(dirs, files) \subseteq {k[2] : k \in {e \in dirs : Len(e) = 2}}
    /\ UNCHANGED vars

\* setup_dirs.py main(): the store root, the thumbnail directory next to it and
\* the demonstration project with its three files
SetupDirs ==
    /\ dirs' = dirs \cup {<<>>, <<nR>>, <<nThumbs>>, <<nR, nDemo>>}
    /\ files' = PutFile(PutFile(PutFile(files,
                    <<nR, nDemo, nCacheAbc>>, <<"d", "u", "m", "m", "y", " ", "a", "l", "e", "m", "b", "i", "c", " ", "f", "i", "l", "e">>),
                    <<nR, nDemo, nSmokeVdb>>, <<"d", "u", "m", "m", "y", " ", "v", "d", "b", " ", "f", "i", "l", "e">>),
                    <<nR, nDemo, nGeoBgeo>>, <<"d", "u", "m", "m", "y", " ", "b", "g", "e", "o", " ", "f", "i", "l", "e">>)
    /\ UNCHANGED <<windows, TOKENS, up, issued, scan, client>>

Next ==
    \/ \E project \in ProjectNames, password \in Passwords : Login(project, password)
    \/ \E h \in Headers, p \in DownloadPaths : Download(h, p)
    \/ \E i \in Uploaders, h \in Headers, p \in UploadPaths, b \in Blobs :
          UploadBegin(i, h, p, b)
    \/ \E i \in Uploaders : UploadWrite(i)
    \/ \E i \in Uploaders : UploadFinish(i)
    \/ \E i \in Uploaders : UploadFail(i)

Spec == Init /\ [][Next]_vars

\* the same handlers, driven with the credential record as the upload target
NextAuth ==
    \/ \E project \in ProjectNames, password \in AuthPasswords : Login(project, password)
    \/ \E h \in Headers, p \in AuthPaths : Download(h, p)
    \/ \E i \in Uploaders, h \in Headers, p \in AuthUploadPaths, b \in AuthBlobs :
          UploadBegin(i, h, p, b)
    \/ \E i \in Uploaders : UploadWrite(i)
    \/ \E i \in Uploaders : UploadFinish(i)
    \/ \E i \in Uploaders : UploadFail(i)

SpecAuth == Init /\ [][NextAuth]_vars

(***************************************************************************)
(* Credential verification on its own: project A with any credential       *)
(* record, or none, and logins with any password                           *)
(***************************************************************************)
InitVerify ==
    /\ windows \in BOOLEAN
    /\ dirs = InitDirs
    /\ \/ \E rec \in VerifyRecords : files = PutFile(InitFiles, <<nR, A, PASSWD>>, rec)
       \/ files = [k \in DOMAIN InitFiles \ {<<nR, A, PASSWD>>} |-> InitFiles[k]]
    /\ TOKENS = <<>>
    /\ up = [i \in Uploaders |-> IdleUp]
    /\ issued = {}
    /\ scan = IdleScan
    /\ InitClient

NextVerify == \E password \in VerifyPasswords : Login(A, password)

SpecVerify == InitVerify /\ [][NextVerify]_vars

(***************************************************************************)
(* The registry under concurrent requests, server.py lines 55-59 and 90:   *)
(* endpoints run on worker threads, so the loop of _project_from_token     *)
(* runs step by step between the logins of other requests.  The dict       *)
(* iterator remembers the size of the dict it was made for, and raises     *)
(* RuntimeError when it is asked for the next item of a dict whose size    *)
(* has changed.                                                            *)
(***************************************************************************)
\* a store in which three projects have a credential record
RaceFiles == PutFile(InitFiles, <<nR, D, PASSWD>>, PwWrong)

InitRace ==
    /\ windows \in BOOLEAN
    /\ dirs = InitDirs
    /\ files = RaceFiles
    /\ TOKENS = <<>>
    /\ up = [i \in Uploaders |-> IdleUp]
    /\ issued = {}
    /\ scan = IdleScan
    /\ InitClient

\* line 56, TOKENS.items() and iter(): the iterator starts before the first
\* entry; expect is history, the project the registry holds for the token
\* at this moment (<<project>>, or <<>> for none)
ScanBegin(token) ==
    /\ scan.pc = "idle"
    /\ scan' = [pc |-> "iter", token |-> token, pos |-> 0, used |-> Len(TOKENS),
                expect |-> IF ProjectFromToken(TOKENS, token).ok
                           THEN <<ProjectFromToken(TOKENS, token).proj>> ELSE <<>>]
    /\ UNCHANGED <<windows, dirs, files, TOKENS, up, issued, client>>

\* lines 56-59: one turn of the loop; the handler ends with the project, with
\* 401 at the end of the dict, or with the iterator's RuntimeError (a 500)
ScanNext ==
    /\ scan.pc = "iter"
    /\ scan' = IF scan.used # Len(TOKENS)
               THEN [pc |-> "error", token |-> scan.token, expect |-> scan.expect]
               ELSE IF scan.pos >= Len(TOKENS)
               THEN [pc |-> "invalid", token |-> scan.token, expect |-> scan.expect]
               ELSE IF TOKENS[scan.pos + 1][2] = scan.token
               THEN [pc |-> "found", token |-> scan.token, expect |-> scan.expect,
                     proj |-> TOKENS[scan.pos + 1][1]]
               ELSE [scan EXCEPT !.pos = scan.pos + 1]
    /\ UNCHANGED <<windows, dirs, files, TOKENS, up, issued, client>>

\* the request is answered
ScanReturn ==
    /\ scan.pc \in {"found", "invalid", "error"}
    /\ scan' = IdleScan
    /\ UNCHANGED <<windows, dirs, files, TOKENS, up, issued, client>>

NextRace ==
    \/ \E project \in ProjectNames, password \in Passwords : Login(project, password)
    \/ \E token \in {MakeToken(A), MakeToken(D)} : ScanBegin(token)
    \/ ScanNext
    \/ ScanReturn

SpecRace == InitRace /\ [][NextRace]_vars

(***************************************************************************)
(* The catalogue: a store with assets, hidden and reserved directories and *)
(* a stray file, or a machine on which the store has not been set up yet   *)
(***************************************************************************)
CatalogDirs ==
    InitDirs \cup {<<nR, A, nThumbs>>, <<nR, nHidden>>, <<nR, nScript>>, <<nR, nScripts>>}

CatalogFiles ==
    [k \in {<<nR, A, PASSWD>>, <<nR, AB, PASSWD>>, <<nR, A, nBgeo>>, <<nR, A, nVdb>>,
            <<nR, A, nTxt>>, <<nR, A, nThumbs, nShot>>, <<nR, AB, nDots>>, <<nR, nStray>>} |->
        IF k = <<nR, A, PASSWD>> THEN PwA \o <<"\n">>
        ELSE IF k = <<nR, AB, PASSWD>> THEN BcryptHashpw(PwAB)
        ELSE IF k = <<nR, A, nBgeo>> THEN Old
        ELSE IF k = <<nR, A, nThumbs, nShot>> THEN <<"j", "p", "g">>
        ELSE <<"q">>]

InitCatalog ==
    /\ windows \in BOOLEAN
    /\ \/ dirs = CatalogDirs /\ files = CatalogFiles
       \/ dirs = {<<>>} /\ files = <<>>
    /\ TOKENS = <<>>
    /\ up = [i \in Uploaders |-> IdleUp]
    /\ issued = {}
    /\ scan = IdleScan
    /\ InitClient

NextCatalog ==
    \/ SetupDirs
    \/ Projects
    \/ \E project \in ProjectNames, password \in Passwords : Login(project, password)
    \/ \E h \in Headers : Manifest(h)
    \/ \E h \in Headers, p \in CatalogPaths : Download(h, p)
    \/ \E i \in Uploaders, h \in Headers, p \in CatalogUploadPaths, b \in CatalogBlobs :
          UploadBegin(i, h, p, b)
    \/ \E i \in Uploaders : UploadWrite(i)
    \/ \E i \in Uploaders : UploadFinish(i)
    \/ \E i \in Uploaders : UploadFail(i)

SpecCatalog == InitCatalog /\ [][NextCatalog]_vars

(***************************************************************************)
(* The browser client, src/Houdini_shelf_tools/ELD_Library_UI.py: project  *)
(* selection (sign-in, manifest, grid refresh) and the thumbnail cache.    *)
(* The type and context toggles and the search field stay as __init__      *)
(* and on_project_selected set them.                                       *)
(***************************************************************************)
\* line 12, with ~ for the home directory
THUMB_CACHE_DIR == <<"~", "/", "D", "o", "c", "u", "m", "e", "n", "t", "s", "/", "E", "L", "D", "L", "i", "b", "r", "a", "r", "y", "/", ".", "t", "h", "u", "m", "b", "c", "a", "c", "h", "e">>

\* lines 19-21
thumb_cache_path(rel_thumb) == THUMB_CACHE_DIR \o <<SLASH>> \o Replace(rel_thumb, SLASH, "_")

PART == <<".", "p", "a", "r", "t">>

\* line 172: the types whose toggle is on
types_on == {<<"v", "d", "b">>, <<"a", "b", "c">>, <<"b", "g", "e", "o">>, <<"c", "p", "i", "o">>}

\* refresh_grid, accept(a), lines 437-445
Accept(a) == Lower(a.type) \in types_on

\* _make_thumb_pm, lines 391-404: the remote thumbnail paths to try, in order;
\* base is os.path.splitext(os.path.basename(apath))[0]: the last segment up
\* to its last ".", unless only dots precede that
Candidates(a) ==
    LET segs == Split(Replace(a.path, BSLASH, SLASH), {SLASH})
        name == segs[Len(segs)]
        i    == RFindDot(name)
        base == IF i > 0 /\ \E j \in 1..(i - 1) : name[j] # "."
                THEN SubSeq(name, 1, i - 1) ELSE name
    IN a.thumb \o (IF base # <<>>
                   THEN <<nThumbs \o <<SLASH>> \o base \o <<".", "j", "p", "g">>,
                          nThumbs \o <<SLASH>> \o base \o <<".", "p", "n", "g">>>>
                   ELSE <<>>)

\* download_file, lines 105-111: what the response r leaves on the client's
\* disk [tc, og]: nothing when raise_for_status raises, a partial .part file
\* when the connection breaks after cut bytes, else the file at dst_path
StoreResponse(disk, r, project, rel_path, dst_path, cut) ==
    IF r.status # 200 THEN disk
    ELSE IF cut < Len(r.body)
    THEN [tc |-> PutFile(disk.tc, dst_path \o PART, SubSeq(r.body, 1, cut)), og |-> disk.og]
    ELSE [tc |-> [k \in (DOMAIN disk.tc \cup {dst_path}) \ {dst_path \o PART} |->
                     IF k = dst_path THEN r.body ELSE disk.tc[k]],
          og |-> PutFile(disk.og, dst_path, <<project, rel_path>>)]

\* ApiClient.download_file, lines 99-111; sv is the server with the client's
\* tokens, project and connection: [win, ds, fs, T, toks, project, cut]
DownloadFile(sv, disk, rel_path, dst_path) ==
    StoreResponse(disk,
                  DownloadResult(sv.win, sv.ds, sv.fs, sv.T,
                                 IF sv.project \in DOMAIN sv.toks
                                 THEN Bearer(sv.toks[sv.project]) ELSE <<>>,
                                 rel_path),
                  sv.project, rel_path, dst_path, sv.cut)

RECURSIVE TryCandidates(_, _, _)

\* lines 418-425: use the cached file if QPixmap takes it as an image (a file
\* without bytes is none), else go on with the next candidate
UseOrNext(sv, disk, cache, rest) ==
    IF cache \in DOMAIN disk.tc /\ disk.tc[cache] # <<>> THEN disk
    ELSE TryCandidates(sv, disk, rest)

\* _make_thumb_pm, lines 406-425: try the candidates in order, fetching each
\* one that is not cached
TryCandidates(sv, disk, cands) ==
    IF cands = <<>> THEN disk
    ELSE UseOrNext(sv,
                   IF thumb_cache_path(cands[1]) \notin DOMAIN disk.tc
                   THEN DownloadFile(sv, disk, cands[1], thumb_cache_path(cands[1]))
                   ELSE disk,
                   thumb_cache_path(cands[1]), Tail(cands))

\* refresh_grid, lines 447-454: a thumbnail for every asset the filters accept
RECURSIVE RefreshGrid(_, _, _)
RefreshGrid(sv, disk, assets) ==
    IF assets = <<>> THEN disk
    ELSE RefreshGrid(sv,
                     IF Accept(assets[1])
                     THEN TryCandidates(sv, disk, Candidates(assets[1]))
                     ELSE disk,
                     Tail(assets))

\* the store the browser talks to: both projects have an asset a.bgeo with a
\* thumbnail thumbs/a.jpg, each its own image
BrowserFiles ==
    LET nAJpg == <<"a", ".", "j", "p", "g">>
        nBPng == <<"b", ".", "p", "n", "g">>
    IN
    [k \in {<<nR, A, PASSWD>>, <<nR, AB, PASSWD>>, <<nR, A, nBgeo>>, <<nR, AB, nBgeo>>,
            <<nR, AB, nVdb>>, <<nR, A, nThumbs, nAJpg>>, <<nR, AB, nThumbs, nAJpg>>,
            <<nR, AB, nThumbs, nBPng>>} |->
        IF k = <<nR, A, PASSWD>> THEN PwA \o <<"\n">>
        ELSE IF k = <<nR, AB, PASSWD>> THEN BcryptHashpw(PwAB)
        ELSE IF k = <<nR, A, nThumbs, nAJpg>> THEN <<"1", "1">>
        ELSE IF k = <<nR, AB, nThumbs, nAJpg>> THEN <<"2", "2">>
        ELSE IF k = <<nR, AB, nThumbs, nBPng>> THEN <<"3">>
        ELSE <<"q">>]

InitBrowser ==
    /\ windows \in BOOLEAN
    /\ dirs = InitDirs \cup {<<nR, A, nThumbs>>, <<nR, AB, nThumbs>>}
    /\ files = BrowserFiles
    /\ TOKENS = <<>>
    /\ up = [i \in Uploaders |-> IdleUp]
    /\ issued = {}
    /\ scan = IdleScan
    /\ InitClient

\* lines 325-329: the client after the manifest response mani
AfterManifest(sv, mani, cl) ==
    IF mani.status # 200 THEN [cl EXCEPT !.toks = sv.toks]
    ELSE [cp |-> <<sv.project>>, ca |-> mani.body, toks |-> sv.toks,
          disk |-> RefreshGrid(sv, cl.disk, mani.body)]

\* lines 319-329: the client after the login response res
AfterLogin(win, ds, fs, res, cl, project, cut) ==
    IF res.r.status # 200 THEN cl
    ELSE AfterManifest([win |-> win, ds |-> ds, fs |-> fs, T |-> res.T,
                        toks |-> PutFile(cl.toks, project, res.r.body),
                        project |-> project, cut |-> cut],
                       ManifestResult(win, ds, fs, res.T, Bearer(res.r.body)),
                       cl)

Client == [cp |-> current_project, ca |-> current_assets, toks |-> api_tokens,
           disk |-> [tc |-> thumbcache, og |-> origin]]

SetClient(cl) ==
    /\ current_project' = cl.cp
    /\ current_assets' = cl.ca
    /\ api_tokens' = cl.toks
    /\ thumbcache' = cl.disk.tc
    /\ origin' = cl.disk.og

\* on_project_selected, lines 313-329: sign in, fetch the manifest, show the grid
OnProjectSelected(project, password, cut) ==
    /\ TOKENS' = LoginResult(windows, dirs, files, TOKENS, project, password).T
    /\ issued' = IF LoginResult(windows, dirs, files, TOKENS, project, password).r.status = 200
                 THEN issued \cup {<<project, MakeToken(project)>>}
                 ELSE issued
    /\ SetClient(AfterLogin(windows, dirs, files,
                            LoginResult(windows, dirs, files, TOKENS, project, password),
                            Client, project, cut))
    /\ UNCHANGED <<windows, dirs, files, up, scan>>

\* on_grid_selection_changed and _set_info, lines 463-478: the info panel
\* makes the thumbnail of the selected card
OnGridSelectionChanged(n, cut) ==
    /\ n \in 1..Len(current_assets)
    /\ Accept(current_assets[n])
    /\ SetClient([Client EXCEPT !.disk =
                     TryCandidates([win |-> windows, ds |-> dirs, fs |-> files, T |-> TOKENS,
                                    toks |-> api_tokens, project |-> current_project[1],
                                    cut |-> cut],
                                   [tc |-> thumbcache, og |-> origin],
                                   Candidates(current_assets[n]))])
    /\ UNCHANGED <<windows, dirs, files, TOKENS, up, issued, scan>>

\* the browser's requests, and the logins of other clients of the same server
NextBrowser ==
    \/ \E project \in ProjectNames, password \in Passwords : Login(project, password)
    \/ \E project \in {A, AB}, password \in Passwords, cut \in 0..MaxCut :
          OnProjectSelected(project, password, cut)
    \/ \E n \in 1..Cardinality(DOMAIN BrowserFiles), cut \in 0..MaxCut :
          OnGridSelectionChanged(n, cut)

SpecBrowser == InitBrowser /\ [][NextBrowser]_vars

(***************************************************************************)
(* Properties                                                              *)
(***************************************************************************)
\* the content of a path as a reader finds it: <<content>>, or <<>> for no file
FileAt(fs, key) == IF key \in DOMAIN fs THEN <<fs[key]>> ELSE <<>>

Range(s) == {s[i] : i \in 1..Len(s)}

\* key lies in the directory tree of rootKey
Under(key, rootKey) == StartsWith(key, rootKey)

\* no other upload request has been admitted for the destination of upload i
OthersAway(i) ==
    \A j \in Uploaders \ {i} :
        up[j].pc = "idle" \/ FsKey(up[j].dest) # FsKey(up[i].dest)

\* the download requests, by an authenticated client, that address the file key
ReadsOf(key) ==
    {hp \in Headers \X DownloadPaths :
        LET a == Authenticate(TOKENS, hp[1]) IN
        /\ a.ok
        /\ DownloadTarget(windows, a.proj, hp[2]).ok
        /\ FsKey(DownloadTarget(windows, a.proj, hp[2]).fpath) = key}

\* what a download answers for the file state f (<<content>> or <<>>)
Served(f) ==
    IF f = <<>> THEN Response(404, "File not found", NoBody)
    ELSE Response(200, "file", f[1])

\* C1: while an upload to a destination is in progress (and it is the only
\* upload to that destination), every download of the destination answers
\* with the complete content the destination had before the upload began (or
\* 404 when it had none) or with the complete uploaded content.
C1_ReaderSeesOldOrNew ==
    \A i \in Uploaders :
        (up[i].pc = "copy" /\ OthersAway(i)) =>
            \A hp \in ReadsOf(FsKey(up[i].dest)) :
                DownloadResult(windows, dirs, files, TOKENS, hp[1], hp[2])
                    \in {Served(up[i].pre), Served(<<up[i].data>>)}

\* C2: when an upload fails after it has started (an I/O failure), and it is
\* the only upload to its destination, the destination holds exactly what
\* it held before the upload started: the previous file, or no file.
C2_FailedUploadLeavesOld ==
    \A i \in Uploaders :
        (up[i].pc = "failed" /\ OthersAway(i)) =>
            FileAt(files, FsKey(up[i].dest)) = up[i].pre

\* C3: when two uploads to the same destination have both completed (and no
\* third upload addressed it), the destination holds exactly the content of
\* one of the two.
C3_LastWriterWins ==
    \A i, j \in Uploaders :
        (/\ i # j
         /\ up[i].pc = "done" /\ up[j].pc = "done"
         /\ FsKey(up[i].dest) = FsKey(up[j].dest)
         /\ \A k \in Uploaders \ {i, j} :
                up[k].pc = "idle" \/ FsKey(up[k].dest) # FsKey(up[i].dest))
        => FileAt(files, FsKey(up[i].dest)) \in {<<up[i].data>>, <<up[j].data>>}

\* C4: after an upload of bytes B to path P has succeeded (and no other
\* upload addressed the same file), a download of P with the same token
\* answers exactly B, whichever separator P is written with.
C4_RoundTrip ==
    \A i \in Uploaders :
        (up[i].pc = "done" /\ up[i].status = 200 /\ OthersAway(i)) =>
            DownloadResult(windows, dirs, files, TOKENS, up[i].hdr, up[i].path)
                = Response(200, "file", up[i].data)

\* paths with a ".." segment or an absolute prefix, in both separator conventions
TraversalPaths ==
    {pUpAB, pUpABb, pUpE, pInside, pInsideb, pAbsX, pAbsXb, pAbsE, pDrive}

\* C5: with a valid token, download and upload answer 400 Invalid path for
\* every path that has a ".." segment or an absolute prefix.
C5_TraversalRejected ==
    \A h \in Headers : Authenticate(TOKENS, h).ok =>
        \A p \in TraversalPaths :
            /\ DownloadResult(windows, dirs, files, TOKENS, h, p)
                   = Response(400, "Invalid path", NoBody)
            /\ UploadRefusal(windows, dirs, files, TOKENS, h, p)
                   = Response(400, "Invalid path", NoBody)

\* C6: a download that answers with file bytes, made with the token of
\* project P, serves a file inside P's root directory.
C6_ReadIsolation ==
    \A h \in Headers, p \in DownloadPaths :
        LET a == Authenticate(TOKENS, h)
            r == DownloadResult(windows, dirs, files, TOKENS, h, p)
        IN (a.ok /\ r.status = 200) =>
              Under(FsKey(DownloadTarget(windows, a.proj, p).fpath),
                    FsKey(ProjectRoot(windows, a.proj)))

\* every file and directory outside rootKey is the same before and after the step
FrameOutside(rootKey) ==
    /\ \A k \in DOMAIN files \cup DOMAIN files' :
          ~Under(k, rootKey) => FileAt(files', k) = FileAt(files, k)
    /\ \A k \in dirs \cup dirs' : ~Under(k, rootKey) => (k \in dirs <=> k \in dirs')

\* C7: every step of an upload made with the token of project P leaves all
\* files and directories outside P's root directory unchanged, and a
\* request that is not authenticated changes nothing.
C7_WriteIsolation ==
    [][/\ \A i \in Uploaders, h \in Headers, p \in UploadPaths, b \in Blobs :
             UploadBegin(i, h, p, b) =>
                 IF Authenticate(TOKENS, h).ok
                 THEN FrameOutside(FsKey(ProjectRoot(windows, Authenticate(TOKENS, h).proj)))
                 ELSE UNCHANGED <<dirs, files>>
       /\ \A i \in Uploaders :
             UploadWrite(i) => FrameOutside(FsKey(ProjectRoot(windows, up[i].proj)))
      ]_vars

\* the credential record of a project, as the deployment lays it out
RecordKey(project) == <<nR, project, PASSWD>>

HasRecord(project) == RecordKey(project) \in DOMAIN files

\* the password is the one the record stands for: the record is its hash, or,
\* for a record without the hash marker, the password itself
CredentialMatches(record, password) ==
    IF StartsWith(Strip(record), BCRYPT_MARK)
    THEN Strip(record) = BcryptHashpw(password)
    ELSE Strip(record) = password

\* C8: a login with the correct password for a project with a credential
\* record answers with a token that resolves to exactly that project, and
\* every token a login has returned for project P resolves to P, after any
\* sequence of logins.
C8_TokenResolvesToItsProject ==
    /\ \A project \in ProjectNames, password \in AuthPasswords :
          LET res == LoginResult(windows, dirs, files, TOKENS, project, password) IN
          /\ (HasRecord(project) /\ CredentialMatches(files[RecordKey(project)], password))
                => res.r.status = 200
          /\ res.r.status = 200 =>
                ProjectFromToken(res.T, res.r.body) = [ok |-> TRUE, proj |-> project]
    /\ \A pt \in issued :
          ProjectFromToken(TOKENS, pt[2]) = [ok |-> TRUE, proj |-> pt[1]]

\* two projects hold tokens, issued in either order
C8_Witness ==
    /\ Len(TOKENS) = 2
    /\ TOKENS[1][1] = AB
    /\ <<A, MakeToken(A)>> \in issued
    /\ <<AB, MakeToken(AB)>> \in issued

\* C9: a login with a wrong password for a project with a credential record
\* gets the same response (status and message) as a login for a project
\* directory without credential record.
C9_SameErrorResponse ==
    \A P, Q \in ProjectNames, pw1, pw2 \in Passwords :
        (/\ HasRecord(P) /\ ~CredentialMatches(files[RecordKey(P)], pw1)
         /\ <<nR, Q>> \in dirs /\ ~HasRecord(Q))
        => LoginResult(windows, dirs, files, TOKENS, P, pw1).r
              = LoginResult(windows, dirs, files, TOKENS, Q, pw2).r

\* C10: unless the project directory exists, its credential record exists and
\* the password matches the record, login answers without a token and leaves
\* the token registry as it is.
C10_FailClosedLogin ==
    \A project \in ProjectNames, password \in AuthPasswords :
        LET res == LoginResult(windows, dirs, files, TOKENS, project, password) IN
        (~ (/\ <<nR, project>> \in dirs
            /\ HasRecord(project)
            /\ CredentialMatches(files[RecordKey(project)], password)))
        => (res.r.status # 200 /\ res.r.body = NoBody /\ res.T = TOKENS)

\* a login has succeeded against a replaced credential record, while another
\* project directory has no record and is refused
C10_Witness ==
    /\ <<A, MakeToken(A)>> \in issued
    /\ HasRecord(A) /\ files[RecordKey(A)] = PwWrong
    /\ <<nR, D>> \in dirs /\ ~HasRecord(D)
    /\ LoginResult(windows, dirs, files, TOKENS, D, PwWrong).r.status = 401

\* C11: when a login succeeds for a project that already holds a token from
\* an earlier login, the token returned by the earlier login no longer
\* resolves afterwards, and the newly returned token resolves to the project.
C11_ReloginReplacesToken ==
    \A project \in ProjectNames, password \in AuthPasswords :
        LET res == LoginResult(windows, dirs, files, TOKENS, project, password) IN
        res.r.status = 200 =>
            /\ \A pt \in issued :
                  pt[1] = project => ~ProjectFromToken(res.T, pt[2]).ok
            /\ ProjectFromToken(res.T, res.r.body) = [ok |-> TRUE, proj |-> project]

\* the header is "Bearer <t>" for a token t the registry holds
ValidBearer(h) == \E i \in 1..Len(TOKENS) : h = BearerPrefix \o TOKENS[i][2]

\* the projects whose logins returned the token of the header h
MintedFor(h) == {pt[1] : pt \in {q \in issued : BearerPrefix \o q[2] = h}}

\* what each token-protected handler answers for the header h in this state
C12_Answers(h) ==
    {ManifestResult(windows, dirs, files, TOKENS, h)}
        \cup {DownloadResult(windows, dirs, files, TOKENS, h, p) : p \in CatalogPaths}
        \cup {UploadRefusal(windows, dirs, files, TOKENS, h, p) : p \in CatalogUploadPaths}

C12_State ==
    /\ \A h \in Headers :
          IF ValidBearer(h)
          THEN LET a == Authenticate(TOKENS, h) IN
               /\ a.ok /\ MintedFor(h) = {a.proj}
               /\ \A r \in C12_Answers(h) : r.status # 401
               /\ ManifestResult(windows, dirs, files, TOKENS, h).status = 200 =>
                     \A rec \in Range(ManifestResult(windows, dirs, files, TOKENS, h).body) :
                         <<nR, a.proj>> \o Split(rec.path, {SLASH}) \in DOMAIN files
          ELSE \A r \in C12_Answers(h) : r.status = 401 /\ r.body = NoBody
    /\ \A i \in Uploaders : up[i].pc = "copy" => MintedFor(up[i].hdr) = {up[i].proj}

\* a step of an upload request whose header is refused changes nothing
C12_Step ==
    \A h \in Headers : ~ValidBearer(h) =>
        \A i \in Uploaders, p \in CatalogUploadPaths, b \in CatalogBlobs :
            UploadBegin(i, h, p, b) => UNCHANGED vars

C13_CredentialRecordProtected ==
    /\ \A P \in ProjectNames :
          RecordKey(P) \in DOMAIN InitFiles =>
              FileAt(files, RecordKey(P)) = <<InitFiles[RecordKey(P)]>>
    /\ \A h \in Headers :
          /\ DownloadResult(windows, dirs, files, TOKENS, h, pPasswd).status # 200
          /\ ManifestResult(windows, dirs, files, TOKENS, h).status = 200 =>
                \A rec \in Range(ManifestResult(windows, dirs, files, TOKENS, h).body) :
                    rec.path # PASSWD

ExpectedAsset(name) ==
    IF name = nBgeo THEN <<<<"a">>, <<"b", "g", "e", "o">>>>
    ELSE IF name = nVdb THEN <<<<"b">>, <<"v", "d", "b">>>>
    ELSE IF name = nShot THEN <<<<"s", "h", "o", "t">>, <<"j", "p", "g">>>>
    ELSE IF name = nPng THEN <<<<"c">>, <<"p", "n", "g">>>>
    ELSE IF name = nDots THEN <<<<"m", ".", "x">>, <<"a", "b", "c">>>>
    ELSE <<>>

\* the regular files below the directory of a project, at any depth
FilesOf(project) == {k \in DOMAIN files : Under(k, <<nR, project>>)}

\* the project-relative path of such a file, with forward slashes
RelPosix(project, k) == JoinWith(SubSeq(k, 3, Len(k)), SLASH)

\* C15: a manifest holds exactly one record for each regular file of the
\* project, at any depth, whose lower-cased extension is bgeo, abc, vdb,
\* cpio, jpg or png, and no other record; the record's id is the stem of the
\* file name, its type the lower-cased extension and its path the
\* project-relative path with forward slashes.
C15_ManifestContent ==
    \A h \in Headers :
        LET r == ManifestResult(windows, dirs, files, TOKENS, h)
            P == Authenticate(TOKENS, h).proj
        IN r.status = 200 =>
            /\ \A k \in FilesOf(P) :
                  LET hits == {i \in 1..Len(r.body) : r.body[i].path = RelPosix(P, k)}
                      e    == ExpectedAsset(k[Len(k)])
                  IN IF e = <<>> THEN hits = {}
                     ELSE /\ Cardinality(hits) = 1
                          /\ \A i \in hits : r.body[i].id = e[1] /\ r.body[i].type = e[2]
            /\ \A i \in 1..Len(r.body) :
                  \E k \in FilesOf(P) : r.body[i].path = RelPosix(P, k)

\* the manifest of A lists a.bgeo, b.vdb, thumbs/shot.jpg and an uploaded
\* c.PNG, beside readme.txt and the credential record, which it leaves out
C15_Witness ==
    /\ ManifestResult(windows, dirs, files, TOKENS, HdrA).status = 200
    /\ Len(ManifestResult(windows, dirs, files, TOKENS, HdrA).body) = 4
    /\ {<<nR, A, nTxt>>, <<nR, A, PASSWD>>, <<nR, A, nPng>>, <<nR, A, nThumbs, nShot>>}
           \subseteq FilesOf(A)
    /\ \E i \in Uploaders : up[i].pc = "done" /\ up[i].hdr = HdrA

ImageTypes == {<<"j", "p", "g">>, <<"p", "n", "g">>}

\* C16: in every manifest the thumb field of a record is the record's own
\* path when its type is jpg or png and is unset otherwise; for project A,
\* which holds thumbs/shot.jpg, the manifest has exactly one record for that
\* file, of type jpg, with thumb equal to its path.
C16_ThumbnailAssociation ==
    \A h \in Headers :
        LET r == ManifestResult(windows, dirs, files, TOKENS, h) IN
        r.status = 200 =>
            /\ \A rec \in Range(r.body) :
                  rec.thumb = (IF rec.type \in ImageTypes THEN <<rec.path>> ELSE <<>>)
            /\ (Authenticate(TOKENS, h).proj = A /\ <<nR, A, nThumbs, nShot>> \in DOMAIN files)
                  => Cardinality({i \in 1..Len(r.body) :
                                     /\ r.body[i].path = pShot
                                     /\ r.body[i].type = <<"j", "p", "g">>
                                     /\ r.body[i].thumb = <<pShot>>}) = 1

\* the manifest of A has image records (shot.jpg, the uploaded c.PNG) with a
\* thumbnail and other records (a.bgeo) without
C16_Witness ==
    LET r == ManifestResult(windows, dirs, files, TOKENS, HdrA) IN
    /\ r.status = 200
    /\ \E rec \in Range(r.body) : rec.path = pShot /\ rec.thumb = <<pShot>>
    /\ \E rec \in Range(r.body) : rec.path = nPng /\ rec.thumb = <<nPng>>
    /\ \E rec \in Range(r.body) : rec.path = nBgeo /\ rec.thumb = <<>>

\* C17: list projects returns exactly the names of the first-level
\* subdirectories of the store root that do not begin with "." and are not
\* "Script" or "Scripts"; a plain file of the first level is not listed, and
\* without a store root the list is empty.
C17_ProjectCatalog ==
    LET L == ListProjects(dirs, files) IN
    /\ \A e \in dirs \cup DOMAIN files :
          (Len(e) = 2 /\ e[1] = nR) =>
              (e[2] \in L <=> /\ e \in dirs
                              /\ e[2][1] # "."
                              /\ e[2] # nScript /\ e[2] # nScripts)
    /\ L = {n \in {A, AB, D, nDemo} : <<nR, n>> \in dirs}
    /\ <<nR>> \notin dirs => L = {}

\* the populated store after setup_dirs.py has added its demonstration project
C17_Witness ==
    /\ ListProjects(dirs, files) = {A, AB, D, nDemo}
    /\ {<<nR, nHidden>>, <<nR, nScript>>, <<nR, nScripts>>} \subseteq dirs
    /\ <<nR, nStray>> \in DOMAIN files

\* C18: every path of a manifest of project P names a complete regular file
\* strictly inside P's root: a download of the path with the same header
\* answers 200 with bytes_total bytes, and while one upload is writing to the
\* file it holds the complete previous content or the complete uploaded
\* content.
C18_ManifestEntriesValid ==
    \A h \in Headers :
        LET r == ManifestResult(windows, dirs, files, TOKENS, h)
            P == Authenticate(TOKENS, h).proj
        IN r.status = 200 =>
            \A rec \in Range(r.body) :
                LET key == <<nR, P>> \o Split(rec.path, {SLASH})
                    d   == DownloadResult(windows, dirs, files, TOKENS, h, rec.path)
                IN /\ key \in DOMAIN files /\ Len(key) > 2
                   /\ d.status = 200 /\ Len(d.body) = rec.bytes_total
                   /\ \A i \in Uploaders :
                         (up[i].pc = "copy" /\ FsKey(up[i].dest) = key /\ OthersAway(i))
                            => <<files[key]>> \in {up[i].pre, <<up[i].data>>}

pEmpty == <<>>                                             \* the empty path
pDir == <<"d">>                                            \* d

\* C19: with a valid token, a download whose path passes the escape check
\* but does not name an existing regular file (a missing file, a directory,
\* the empty path) answers 404 or 400.
C19_DownloadNeedsRegularFile ==
    \A h \in Headers, p \in DownloadPaths \cup {pEmpty, pDir} :
        LET a == Authenticate(TOKENS, h) IN
        (/\ a.ok
         /\ DownloadTarget(windows, a.proj, p).ok
         /\ FsKey(DownloadTarget(windows, a.proj, p).fpath) \notin DOMAIN files)
        => DownloadResult(windows, dirs, files, TOKENS, h, p).status \in {400, 404}

\* C20: a resolve of a token that the registry held for a project when the
\* resolve began ends with that project, whatever logins run while it scans:
\* it does not fail, raise or return another project.
C20_RegistrySafeUnderConcurrency ==
    (scan.pc \in {"found", "invalid", "error"} /\ scan.expect # <<>>) =>
        (scan.pc = "found" /\ scan.proj = scan.expect[1])

\* the remote thumbnail paths the client tries for the assets it shows
ShownThumbs ==
    UNION {Range(Candidates(current_assets[n])) :
              n \in {m \in 1..Len(current_assets) : Accept(current_assets[m])}}

EndsWith(s, suffix) ==
    Len(suffix) <= Len(s) /\ SubSeq(s, Len(s) - Len(suffix) + 1, Len(s)) = suffix

\* C21: the cached file the client uses as the thumbnail for remote path T
\* of the current project was downloaded from that project at path T; a
\* cache entry stands for one (project, thumbnail path) pair only, among the
\* thumbnails the store holds; and what a download leaves at a cache path is
\* the complete file it fetched (a failed or interrupted one leaves nothing
\* there).
C21_ThumbCacheConsistent ==
    /\ \A T \in ShownThumbs :
          thumb_cache_path(T) \in DOMAIN thumbcache =>
              origin[thumb_cache_path(T)] = <<current_project[1], T>>
    /\ \A c \in DOMAIN origin :
          \A P \in {A, AB}, k \in DOMAIN files :
              (Under(k, <<nR, P, nThumbs>>) /\ thumb_cache_path(RelPosix(P, k)) = c)
                  => origin[c] = <<P, RelPosix(P, k)>>
    /\ \A c \in DOMAIN thumbcache :
          ~EndsWith(c, PART) =>
              /\ c \in DOMAIN origin
              /\ thumbcache[c] = files[<<nR, origin[c][1]>> \o Split(origin[c][2], {SLASH})]

====
